---- MODULE Spec2Model ----
(***************************************************************************)
(* Duty-roster to distribution-table filler (processor.py, app.py).        *)
(*                                                                         *)
(* Text is modelled as a sequence of characters, each a one-character      *)
(* string or, outside ASCII, the name of its code point ("U+3002"); a      *)
(* spreadsheet cell is a record tagged nan / num / str, a DataFrame is its *)
(* extent plus its cell contents, a worksheet a function from (row,        *)
(* column) to a value.  A Python call that may raise returns a record      *)
(* whose exc field names the exception ("none" when it returned).          *)
(***************************************************************************)
EXTENDS Integers, Sequences, FiniteSets, TLC

VARIABLES
    pc,               \* position of the operation under way
    sheet_names,      \* xls.sheet_names of the duty workbook (get_available_dates)
    dates,            \* the list get_available_dates returns
    value,            \* the cell value handed to format_number / parse_duty_string / val1
    val2,             \* the second cell value handed to parse_rescue_numbers
    parsed,           \* what the parsing function returned or raised
    remarks_cell,     \* text of the remarks cell df.iloc[30, 0]
    remarks,          \* the normalized remarks
    duty_file,        \* the duty workbook handed to process_files
    template_file,    \* the template workbook handed to process_files
    date_sheet,       \* the selected date key
    duty_data,        \* the DutyRecord extract_duty_data returned
    ws,               \* the active worksheet fill_distribution_table writes
    result,           \* what process_files returned: (result_file, filename)
    raised,           \* the exception that left process_files, "none" if none
    ui,               \* the elements the generate handler has rendered
    duty_buf,         \* the uploaded duty file of the page (app.py duty_file)
    template_buf,     \* the uploaded template file of the page (app.py template_file)
    available_dates,  \* app.py available_dates of the current script run
    selected_date,    \* app.py selected_date of the current script run
    clicked           \* whether the generate button triggered the current run

vars == <<pc, sheet_names, dates, value, val2, parsed, remarks_cell, remarks,
          duty_file, template_file, date_sheet, duty_data, ws, result, raised, ui,
          duty_buf, template_buf, available_dates, selected_date, clicked>>

datesVars == <<sheet_names, dates>>
parseVars == <<value, val2, parsed>>
remarksVars == <<remarks_cell, remarks>>
processVars == <<duty_file, template_file, date_sheet, duty_data, ws, result, raised, ui>>
appVars == <<duty_buf, template_buf, available_dates, selected_date, clicked>>

None == [kind |-> "None"]

(***************************************************************************)
(* Bounds of the model.                                                    *)
(***************************************************************************)
MaxSheets == 3        \* worksheets in the duty workbook of SpecDates
MaxTextLen == 4       \* characters in a cell text of SpecParse
MaxRemarksLen == 4    \* characters in the remarks cell of SpecRemarks
MaxPos == 1           \* last read position of an uploaded buffer in SpecApp

(***************************************************************************)
(* Text helpers (Python str semantics).                                    *)
(***************************************************************************)
Digits == <<"0", "1", "2", "3", "4", "5", "6", "7", "8", "9">>

IsDigit(c) == \E i \in 1..10 : Digits[i] = c

DigitVal(c) == (CHOOSE i \in 1..10 : Digits[i] = c) - 1

\* str.isspace of one character
IsSpace(c) == c \in {" ", "\n", "\t"}

\* Unicode code point of the characters sheet names are built from
Ord(c) ==
    CASE c = "\n" -> 10
      [] c = " " -> 32
      [] IsDigit(c) -> 48 + DigitVal(c)
      [] c = "a" -> 97
      [] c = "U+672C" -> 26412
      [] c = "U+7BC4" -> 31684

\* Python's str < str: by code point, a proper prefix first
RECURSIVE StrLess(_, _)
StrLess(a, b) ==
    IF a = <<>> THEN b # <<>>
    ELSE IF b = <<>> THEN FALSE
    ELSE IF Head(a) # Head(b) THEN Ord(Head(a)) < Ord(Head(b))
    ELSE StrLess(Tail(a), Tail(b))

\* all sequences over alphabet of length 0..n
RECURSIVE SeqsUpTo(_, _)
SeqsUpTo(alphabet, n) ==
    IF n = 0 THEN {<<>>}
    ELSE LET shorter == SeqsUpTo(alphabet, n - 1)
         IN shorter \cup {Append(s, c) : s \in {t \in shorter : Len(t) = n - 1}, c \in alphabet}

\* sep.join(parts)
RECURSIVE Join(_, _)
Join(sep, parts) ==
    IF parts = <<>> THEN <<>>
    ELSE IF Len(parts) = 1 THEN parts[1]
    ELSE parts[1] \o sep \o Join(sep, Tail(parts))

\* str.strip(): whitespace removed at both ends
RECURSIVE LStrip(_)
LStrip(s) == IF s # <<>> /\ IsSpace(Head(s)) THEN LStrip(Tail(s)) ELSE s

RECURSIVE RStripSpace(_)
RStripSpace(s) ==
    IF s # <<>> /\ IsSpace(s[Len(s)]) THEN RStripSpace(SubSeq(s, 1, Len(s) - 1)) ELSE s

Strip(s) == RStripSpace(LStrip(s))

\* decimal digits of a natural number
RECURSIVE NatToStr(_)
NatToStr(n) == IF n < 10 THEN <<Digits[n + 1]>> ELSE Append(NatToStr(n \div 10), Digits[(n % 10) + 1])

\* value of a non-empty string of digits
RECURSIVE StrToNat(_)
StrToNat(s) ==
    IF s = <<>> THEN 0 ELSE 10 * StrToNat(SubSeq(s, 1, Len(s) - 1)) + DigitVal(s[Len(s)])

AllDigits(s) == \A i \in 1..Len(s) : IsDigit(s[i])

\* f"{num:02d}": minimum width 2, zero filled, the sign counted in the width
Format02d(num) ==
    IF num < 0 THEN <<"-">> \o NatToStr(0 - num)
    ELSE IF num < 10 THEN <<"0">> \o NatToStr(num)
    ELSE NatToStr(num)

(***************************************************************************)
(* get_available_dates                                                     *)
(***************************************************************************)
\* re.match(r'^\d{4}$', name): four digits, then the end of the string or a
\* newline that ends the string ($ matches before a trailing newline)
ReMatchFourDigits(name) ==
    /\ Len(name) >= 4
    /\ \A i \in 1..4 : IsDigit(name[i])
    /\ \/ Len(name) = 4
       \/ Len(name) = 5 /\ name[5] = "\n"

\* list.sort() of strings, as an insertion sort (the result is the unique
\* ascending order of distinct names)
RECURSIVE InsertSorted(_, _)
InsertSorted(sorted, name) ==
    IF sorted = <<>> THEN <<name>>
    ELSE IF StrLess(name, Head(sorted)) THEN <<name>> \o sorted
    ELSE <<Head(sorted)>> \o InsertSorted(Tail(sorted), name)

RECURSIVE SortNames(_)
SortNames(names) ==
    IF names = <<>> THEN <<>>
    ELSE InsertSorted(SortNames(SubSeq(names, 1, Len(names) - 1)), names[Len(names)])

RECURSIVE FilterDates(_)
FilterDates(names) ==
    IF names = <<>> THEN <<>>
    ELSE (IF ReMatchFourDigits(Head(names)) THEN <<Head(names)>> ELSE <<>>)
         \o FilterDates(Tail(names))

get_available_dates(names) == SortNames(FilterDates(names))

\* worksheet names a duty workbook may carry
SheetNameSet ==
    { <<"0", "1", "0", "1">>, <<"0", "1", "0", "2">>, <<"1", "2", "3", "1">>,
      <<"0", "0", "0", "0">>, <<"U+7BC4", "U+672C">>, <<"0", "1", "0">>,
      <<"0", "1", "0", "1", "1">>, <<"0", "1", "0", "1", "\n">>,
      <<"a", "1", "0", "1">>, <<"0", "1", " ", "1">> }

\* workbooks: up to MaxSheets worksheets, names distinct
Workbooks ==
    {s \in UNION {[1..n -> SheetNameSet] : n \in 0..MaxSheets} :
        \A i, j \in 1..Len(s) : i # j => s[i] # s[j]}

(***************************************************************************)
(* Cell values as pandas hands them over.                                  *)
(***************************************************************************)
NaN == [kind |-> "nan"]
\* a numeric cell: int + frac/10; pandas yields an int when frac = 0
Num(n, d) == [kind |-> "num", int |-> n, frac |-> d]
Text(s) == [kind |-> "str", s |-> s]

\* pd.isna / pd.notna
IsNa(v) == v.kind = "nan"

\* str(value)
PyStr(v) ==
    IF v.kind = "str" THEN v.s
    ELSE IF v.frac = 0 THEN NatToStr(v.int)
    ELSE NatToStr(v.int) \o <<".">> \o NatToStr(v.frac)

Returned(s) == [exc |-> "none", val |-> s]
Raised(e) == [exc |-> e, val |-> <<>>]

\* int(float(s)) of a str over digits, '.', whitespace and letters:
\* float() strips whitespace, accepts digits with at most one point and at
\* least one digit, and accepts "inf"; int() truncates and cannot convert
\* infinity
IntOfFloatStr(s) ==
    LET t == Strip(s)
        dots == {i \in 1..Len(t) : t[i] = "."}
        ip == IF dots = {} THEN t ELSE SubSeq(t, 1, (CHOOSE i \in dots : TRUE) - 1)
        fp == IF dots = {} THEN <<>> ELSE SubSeq(t, (CHOOSE i \in dots : TRUE) + 1, Len(t))
    IN IF t = <<"i", "n", "f">> THEN [exc |-> "OverflowError", n |-> 0]
       ELSE IF /\ Cardinality(dots) <= 1
               /\ AllDigits(ip) /\ AllDigits(fp)
               /\ Len(ip) + Len(fp) >= 1
            THEN [exc |-> "none", n |-> StrToNat(ip)]
       ELSE [exc |-> "ValueError", n |-> 0]

\* int(float(val)) of a cell value that is not NaN
IntOfFloat(v) ==
    IF v.kind = "num" THEN [exc |-> "none", n |-> v.int] ELSE IntOfFloatStr(v.s)

(***************************************************************************)
(* format_number, parse_duty_string, parse_rescue_numbers                  *)
(***************************************************************************)
format_number(v) ==
    IF IsNa(v) THEN Returned(<<>>)
    ELSE IF v.kind = "num" THEN Returned(Format02d(v.int))
    ELSE Returned(Strip(PyStr(v)))

\* re.split(r'[.\s]+', s): the pieces between runs of '.' and whitespace,
\* empty pieces at the ends included
IsSeparator(c) == c = "." \/ IsSpace(c)

RECURSIVE SplitFrom(_, _, _, _)
SplitFrom(s, i, cur, insep) ==
    IF i > Len(s) THEN <<cur>>
    ELSE IF IsSeparator(s[i])
         THEN IF insep THEN SplitFrom(s, i + 1, cur, TRUE)
              ELSE <<cur>> \o SplitFrom(s, i + 1, <<>>, TRUE)
    ELSE SplitFrom(s, i + 1, Append(cur, s[i]), FALSE)

ReSplit(s) == SplitFrom(s, 1, <<>>, FALSE)

\* the loop over parts of parse_duty_string and of format_dispatch_numbers:
\* int(float(part)) zero-padded, the part itself on ValueError; any other
\* exception leaves the loop
RECURSIVE FormatParts(_)
FormatParts(parts) ==
    IF parts = <<>> THEN [exc |-> "none", val |-> <<>>]
    ELSE LET part == Strip(Head(parts))
             num == IntOfFloatStr(part)
             rest == FormatParts(Tail(parts))
         IN IF part = <<>> THEN rest
            ELSE IF num.exc \notin {"none", "ValueError"} THEN [exc |-> num.exc, val |-> <<>>]
            ELSE IF rest.exc # "none" THEN rest
            ELSE [exc |-> "none",
                  val |-> <<IF num.exc = "none" THEN Format02d(num.n) ELSE part>> \o rest.val]

parse_duty_string(v) ==
    IF IsNa(v) THEN Returned(<<>>)
    ELSE LET value_str == Strip(PyStr(v))
             formatted_parts == FormatParts(ReSplit(value_str))
         IN IF value_str = <<>> THEN Returned(<<>>)
            ELSE IF formatted_parts.exc # "none" THEN Raised(formatted_parts.exc)
            ELSE Returned(Join(<<",">>, formatted_parts.val))

\* the loop over [val1, val2] of parse_rescue_numbers
RECURSIVE RescueNumbers(_)
RescueNumbers(vals) ==
    IF vals = <<>> THEN [exc |-> "none", val |-> <<>>]
    ELSE LET val == Head(vals)
             num == IF IsNa(val) THEN [exc |-> "ValueError", n |-> 0] ELSE IntOfFloat(val)
             rest == RescueNumbers(Tail(vals))
         IN IF num.exc \notin {"none", "ValueError"} THEN [exc |-> num.exc, val |-> <<>>]
            ELSE IF rest.exc # "none" THEN rest
            ELSE [exc |-> "none",
                  val |-> (IF num.exc = "none" THEN <<Format02d(num.n)>> ELSE <<>>) \o rest.val]

parse_rescue_numbers(v1, v2) ==
    LET numbers == RescueNumbers(<<v1, v2>>)
    IN IF numbers.exc # "none" THEN Raised(numbers.exc)
       ELSE Returned(Join(<<",">>, numbers.val))

(***************************************************************************)
(* Values of the variables an operation does not use.                      *)
(***************************************************************************)
DatesIdle == sheet_names = <<>> /\ dates = None
ParseIdle == value = None /\ val2 = None /\ parsed = None
RemarksIdle == remarks_cell = None /\ remarks = None
ProcessIdle ==
    /\ duty_file = None /\ template_file = None /\ date_sheet = None
    /\ duty_data = None /\ ws = None /\ result = None /\ raised = "none" /\ ui = <<>>
AppIdle ==
    /\ duty_buf = None /\ template_buf = None /\ available_dates = <<>>
    /\ selected_date = <<>> /\ clicked = FALSE

(***************************************************************************)
(* SpecDates: get_available_dates on every workbook of up to MaxSheets     *)
(* worksheets.                                                             *)
(***************************************************************************)
InitDates ==
    /\ pc = "start"
    /\ sheet_names \in Workbooks
    /\ dates = None
    /\ ParseIdle /\ RemarksIdle /\ ProcessIdle /\ AppIdle

GetAvailableDates ==
    /\ pc = "start"
    /\ dates' = get_available_dates(sheet_names)
    /\ pc' = "done"
    /\ UNCHANGED <<sheet_names, parseVars, remarksVars, processVars, appVars>>

NextDates == GetAvailableDates

SpecDates == InitDates /\ [][NextDates]_vars

\* a name that consists of exactly 4 digits
IsFourDigits(name) == Len(name) = 4 /\ AllDigits(name)

\* C9: get_available_dates returns exactly the worksheet names that consist
\* of exactly 4 digits, each once, in ascending lexicographic order, and
\* excludes every other sheet name.
C9_ExactlyFourDigitNames ==
    pc = "done" =>
        /\ \A name \in SheetNameSet :
              (\E i \in 1..Len(dates) : dates[i] = name)
                  <=> (IsFourDigits(name) /\ \E j \in 1..Len(sheet_names) : sheet_names[j] = name)
        /\ \A i, j \in 1..Len(dates) : i < j => StrLess(dates[i], dates[j])

(***************************************************************************)
(* SpecParse: the three cell formatters on every cell value of up to       *)
(* MaxTextLen characters.                                                  *)
(***************************************************************************)
TextAlphabet == {"1", "8", ".", " ", "i", "n", "f"}

NumInts == {0, 8, 20, 100}
NumFracs == {0, 5}

CellValues ==
    {NaN} \cup {Num(n, d) : n \in NumInts, d \in NumFracs}
          \cup {Text(s) : s \in SeqsUpTo(TextAlphabet, MaxTextLen)}

SecondValues == {NaN, Num(20, 0), Text(<<"8">>), Text(<<"i", "n", "f">>)}

InitParse ==
    /\ pc = "start"
    /\ value \in CellValues
    /\ val2 \in SecondValues
    /\ parsed = None
    /\ DatesIdle /\ RemarksIdle /\ ProcessIdle /\ AppIdle

FormatNumber ==
    /\ pc = "start"
    /\ parsed' = format_number(value)
    /\ pc' = "format_number"
    /\ UNCHANGED <<value, val2, datesVars, remarksVars, processVars, appVars>>

ParseDutyString ==
    /\ pc = "start"
    /\ parsed' = parse_duty_string(value)
    /\ pc' = "parse_duty_string"
    /\ UNCHANGED <<value, val2, datesVars, remarksVars, processVars, appVars>>

ParseRescueNumbers ==
    /\ pc = "start"
    /\ parsed' = parse_rescue_numbers(value, val2)
    /\ pc' = "parse_rescue_numbers"
    /\ UNCHANGED <<value, val2, datesVars, remarksVars, processVars, appVars>>

NextParse == FormatNumber \/ ParseDutyString \/ ParseRescueNumbers

SpecParse == InitParse /\ [][NextParse]_vars

\* number of occurrences of character c in s
Count(s, c) == Cardinality({i \in 1..Len(s) : s[i] = c})

\* C4: a token or cell that fails numeric parsing never aborts: for every
\* input value parse_duty_string and parse_rescue_numbers return a string
\* rather than raise, and parse_rescue_numbers yields 0, 1 or 2 IDs.
C4_ParsingNeverRaises ==
    pc \in {"parse_duty_string", "parse_rescue_numbers"} =>
        /\ parsed.exc = "none"
        /\ pc = "parse_rescue_numbers" => Count(parsed.val, ",") <= 1

(***************************************************************************)
(* Remarks normalization of extract_duty_data.                             *)
(***************************************************************************)
Bei == "U+5099"              \* first character of the remarks label
Zhu == "U+8A3B"              \* second character of the remarks label
FullColon == "U+FF1A"        \* full-width colon
FullPeriod == "U+3002"       \* full-width period
RefMark == "U+203B"          \* reference mark

\* re.sub(r'^<label>[:<full colon>]\s*', '', remarks)
StripLabel(s) ==
    IF Len(s) >= 3 /\ s[1] = Bei /\ s[2] = Zhu /\ s[3] \in {":", FullColon}
    THEN LStrip(SubSeq(s, 4, Len(s)))
    ELSE s

\* remarks.replace('<full period><ref mark>', '\n<ref mark>')
RECURSIVE ReplacePeriodMark(_)
ReplacePeriodMark(s) ==
    IF Len(s) < 2 THEN s
    ELSE IF s[1] = FullPeriod /\ s[2] = RefMark
         THEN <<"\n", RefMark>> \o ReplacePeriodMark(SubSeq(s, 3, Len(s)))
    ELSE <<s[1]>> \o ReplacePeriodMark(Tail(s))

\* remarks.replace('<full colon>', ':')
ReplaceFullColon(s) == [i \in 1..Len(s) |-> IF s[i] = FullColon THEN ":" ELSE s[i]]

\* the trailing period removed once: what strip-a-single-period would do
RStripOnePeriod(s) ==
    IF s # <<>> /\ s[Len(s)] = FullPeriod THEN SubSeq(s, 1, Len(s) - 1) ELSE s

\* remarks.rstrip('<full period>'): every trailing full-width period removed
RECURSIVE RStripPeriods(_)
RStripPeriods(s) ==
    IF s # <<>> /\ s[Len(s)] = FullPeriod THEN RStripPeriods(SubSeq(s, 1, Len(s) - 1)) ELSE s

\* lines 198-208: the remarks field of the cell df.iloc[30, 0]
NormalizeRemarks(cell) ==
    IF IsNa(cell) THEN <<>>
    ELSE RStripPeriods(ReplaceFullColon(ReplacePeriodMark(StripLabel(PyStr(cell)))))

(***************************************************************************)
(* SpecRemarks: the normalization on every remarks text of up to           *)
(* MaxRemarksLen characters.                                               *)
(***************************************************************************)
RemarksAlphabet == {Bei, Zhu, ":", FullColon, FullPeriod, RefMark, " ", "a"}

InitRemarks ==
    /\ pc = "start"
    /\ remarks_cell \in {NaN} \cup {Text(s) : s \in SeqsUpTo(RemarksAlphabet, MaxRemarksLen)}
    /\ remarks = None
    /\ DatesIdle /\ ParseIdle /\ ProcessIdle /\ AppIdle

ExtractRemarks ==
    /\ pc = "start"
    /\ remarks' = NormalizeRemarks(remarks_cell)
    /\ pc' = "done"
    /\ UNCHANGED <<remarks_cell, datesVars, parseVars, processVars, appVars>>

NextRemarks == ExtractRemarks

SpecRemarks == InitRemarks /\ [][NextRemarks]_vars

\* length of the leading label, its colon and the whitespace after it
LabelLen(t) ==
    IF Len(t) >= 3 /\ t[1] = Bei /\ t[2] = Zhu /\ t[3] \in {":", FullColon}
    THEN CHOOSE n \in 3..Len(t) :
            /\ \A i \in 4..n : IsSpace(t[i])
            /\ n < Len(t) => ~IsSpace(t[n + 1])
    ELSE 0

\* number of full-width periods the text ends in
TrailingPeriods(t) ==
    CHOOSE n \in 0..Len(t) :
        /\ \A i \in (Len(t) - n + 1)..Len(t) : t[i] = FullPeriod
        /\ n < Len(t) => t[Len(t) - n] # FullPeriod

\* what character i of the text becomes
NormalizedChar(t, i) ==
    IF t[i] = FullPeriod /\ i < Len(t) /\ t[i + 1] = RefMark THEN "\n"
    ELSE IF t[i] = FullColon THEN ":"
    ELSE t[i]

\* the remarks are the text without its label and without the last n
\* characters, every character normalized
RemarksAre(t, n) ==
    /\ Len(remarks) = Len(t) - LabelLen(t) - n
    /\ \A i \in 1..Len(remarks) : remarks[i] = NormalizedChar(t, LabelLen(t) + i)

\* C7 (as the claim states it): the label is stripped, every period+mark
\* becomes newline+mark, every full-width colon becomes ':', and exactly
\* one trailing full-width period is removed.
C7_OneTrailingPeriodRemoved ==
    (pc = "done" /\ remarks_cell.kind = "str") =>
        RemarksAre(remarks_cell.s, IF TrailingPeriods(remarks_cell.s) >= 1 THEN 1 ELSE 0)

\* C7 (amended): as above, but every trailing full-width period is
\* removed, so the normalized remarks never end in one.
C7_AllTrailingPeriodsRemoved ==
    (pc = "done" /\ remarks_cell.kind = "str") =>
        /\ RemarksAre(remarks_cell.s, TrailingPeriods(remarks_cell.s))
        /\ remarks = <<>> \/ remarks[Len(remarks)] # FullPeriod

\* a text ending in two full-width periods has been normalized to a
\* non-empty remark
C7_Witness ==
    /\ pc = "done" /\ remarks_cell.kind = "str"
    /\ TrailingPeriods(remarks_cell.s) = 2
    /\ remarks # <<>>

(***************************************************************************)
(* The DataFrame of one duty sheet: pd.read_excel(..., header=None).       *)
(* Rows and columns are 0-indexed as in df.iloc.                           *)
(***************************************************************************)
HeaderRow == 2            \* find_column_by_header header_row
FirstSlotRow == 4         \* range(4, 28)
LastSlotRow == 27
RotationRow == 28         \* df.iloc[28, 3], df.iloc[28, 9]
RotationCol == 3
CompensatoryCol == 9
RemarksRow == 30          \* df.iloc[30, 0]
FirstVehicleRow == 35     \* range(35, 38)
LastVehicleRow == 37
VehicleTypeCol == 19
VehicleNumCol == 20
MaintainerCol == 22
DispatchRow == 42         \* df.iloc[42, 2]
DispatchCol == 2
NoColumn == -1            \* find_column_by_header's None

\* contents of cell (r, c) of the sheet: the header row, the time labels
\* and the slot cells (one value on even rows, one on odd rows), and the
\* fixed cells; every other cell is empty
Cell(df, r, c) ==
    IF r = HeaderRow THEN (IF c < Len(df.header) THEN df.header[c + 1] ELSE NaN)
    ELSE IF r \in FirstSlotRow..LastSlotRow
         THEN (IF c = 0 THEN Text(<<"t">>) ELSE IF r % 2 = 0 THEN df.slot ELSE df.slot_odd)
    ELSE IF r = RotationRow /\ c = RotationCol THEN df.rotation
    ELSE IF r = RotationRow /\ c = CompensatoryCol THEN df.rotation
    ELSE IF r = RemarksRow /\ c = 0 THEN df.remarks
    ELSE IF r \in FirstVehicleRow..LastVehicleRow
            /\ c \in {VehicleTypeCol, VehicleNumCol, MaintainerCol} THEN df.vehicle
    ELSE IF r = DispatchRow /\ c = DispatchCol THEN df.dispatch
    ELSE NaN

\* df.iloc[r, c]: IndexError outside the frame's extent
Iloc(df, r, c) ==
    IF r < df.nrows /\ c < df.ncols
    THEN [exc |-> "none", v |-> Cell(df, r, c)]
    ELSE [exc |-> "IndexError", v |-> NaN]

\* a read the code does not make
NoRead == [exc |-> "none", v |-> NaN]

\* the one element of a singleton set
Only(S) == CHOOSE x \in S : TRUE

\* the first exception of a sequence of outcomes in program order
FirstExc(outcomes) ==
    Only({ IF \A i \in 1..Len(excs) : excs[i] = "none" THEN "none"
           ELSE excs[CHOOSE i \in 1..Len(excs) :
                        excs[i] # "none" /\ \A j \in 1..(i - 1) : excs[j] = "none"] :
           excs \in {outcomes} })

(***************************************************************************)
(* find_column_by_header                                                   *)
(***************************************************************************)
\* keyword in cell_str
Contains(s, keyword) ==
    \E i \in 1..(Len(s) - Len(keyword) + 1) : SubSeq(s, i, i + Len(keyword) - 1) = keyword

\* str(cell_value).replace('\n', '').replace(' ', '')
RECURSIVE RemoveNewlinesAndSpaces(_)
RemoveNewlinesAndSpaces(s) ==
    IF s = <<>> THEN <<>>
    ELSE (IF Head(s) \in {"\n", " "} THEN <<>> ELSE <<Head(s)>>)
         \o RemoveNewlinesAndSpaces(Tail(s))

RECURSIVE FindColumnFrom(_, _, _)
FindColumnFrom(df, keywords, col) ==
    IF col >= df.ncols THEN [exc |-> "none", col |-> NoColumn]
    ELSE LET cell_value == Iloc(df, HeaderRow, col)
             cell_str == RemoveNewlinesAndSpaces(PyStr(cell_value.v))
         IN IF cell_value.exc # "none" THEN [exc |-> cell_value.exc, col |-> NoColumn]
            ELSE IF /\ ~IsNa(cell_value.v)
                    /\ \E k \in 1..Len(keywords) : Contains(cell_str, keywords[k])
                 THEN [exc |-> "none", col |-> col]
            ELSE FindColumnFrom(df, keywords, col + 1)

find_column_by_header(df, keywords) == FindColumnFrom(df, keywords, 0)

DutyKeywords == << <<"U+503C", "U+73ED">> >>
RescueKeywords == << <<"U+7B2C", "U+4E00", "U+6551", "U+8B77">>, <<"U+6551", "U+8B77">> >>
StandbyKeywords == << <<"U+5099", "U+52E4">> >>
RestKeywords == << <<"U+4F11", "U+606F">> >>

(***************************************************************************)
(* extract_duty_data                                                       *)
(***************************************************************************)
\* a column read of the slot loop: made only when the column was found
ReadIfFound(df, i, col) == IF col # NoColumn THEN Iloc(df, i, col) ELSE NoRead

\* one pass of the loop over range(4, 28), given what its reads returned
SlotOf(cols, duty_cell, rescue_1, rescue_2, standby_cell, rest_cell, time_cell) ==
    LET duty_val == IF cols.duty # NoColumn THEN format_number(duty_cell.v) ELSE Returned(<<>>)
        rescue_val == IF cols.rescue # NoColumn
                      THEN parse_rescue_numbers(rescue_1.v, rescue_2.v) ELSE Returned(<<>>)
        standby_val == IF cols.standby # NoColumn
                       THEN parse_duty_string(standby_cell.v) ELSE Returned(<<>>)
        rest_val == IF cols.rest # NoColumn THEN parse_duty_string(rest_cell.v) ELSE Returned(<<>>)
    IN [exc |-> FirstExc(<<duty_cell.exc, duty_val.exc, rescue_1.exc, rescue_2.exc,
                           rescue_val.exc, standby_cell.exc, standby_val.exc,
                           rest_cell.exc, rest_val.exc, time_cell.exc>>),
        slot |-> [time |-> IF IsNa(time_cell.v) THEN Text(<<>>) ELSE time_cell.v,
                  duty |-> duty_val.val,
                  rescue |-> rescue_val.val,
                  standby |-> standby_val.val,
                  rest |-> rest_val.val]]

\* one pass of the loop over range(4, 28): the reads of row i, then SlotOf
ReadSlot(df, cols, i) ==
    Only({ SlotOf(cols, duty_cell, rescue_1, rescue_2, standby_cell, rest_cell, time_cell) :
           duty_cell \in {ReadIfFound(df, i, cols.duty)},
           rescue_1 \in {ReadIfFound(df, i, cols.rescue)},
           rescue_2 \in {IF cols.rescue # NoColumn /\ cols.rescue + 1 < df.ncols
                         THEN Iloc(df, i, cols.rescue + 1) ELSE NoRead},
           standby_cell \in {ReadIfFound(df, i, cols.standby)},
           rest_cell \in {ReadIfFound(df, i, cols.rest)},
           time_cell \in {Iloc(df, i, 0)} })

\* re.sub(r'\(([^)]+)\)', format_dispatch_numbers, dispatch): each '(' that
\* is followed by at least one character other than ')' and then ')' is
\* replaced, left to right, by its formatted numbers in parentheses
RECURSIVE FormatDispatch(_)
FormatDispatch(s) ==
    IF s = <<>> THEN Returned(<<>>)
    ELSE LET closes == {j \in 2..Len(s) : s[j] = ")"}
             close == CHOOSE j \in closes : \A k \in closes : j <= k
             matched == s[1] = "(" /\ closes # {} /\ close >= 3
             formatted == FormatParts(ReSplit(SubSeq(s, 2, close - 1)))
             after == FormatDispatch(IF matched THEN SubSeq(s, close + 1, Len(s)) ELSE Tail(s))
         IN IF matched /\ formatted.exc # "none" THEN Raised(formatted.exc)
            ELSE IF after.exc # "none" THEN after
            ELSE IF matched
                 THEN Returned(<<"(">> \o Join(<<",">>, formatted.val) \o <<")">> \o after.val)
            ELSE Returned(<<s[1]>> \o after.val)

\* bool(value) of a cell value or ""
Truthy(v) ==
    IF v.kind = "str" THEN v.s # <<>>
    ELSE IF v.kind = "num" THEN v.int # 0 \/ v.frac # 0
    ELSE FALSE

\* "<maintained vehicle>:" and "<maintainer>:" of the maintenance line
VehicleLabel == <<"U+4FDD", "U+990A", "U+8ECA", "U+8F1B", ":">>
MaintainerLabel == <<"U+4FDD", "U+990A", "U+4EBA", ":">>

\* one pass of the loop over range(35, 38)
ReadVehicle(df, i) ==
    LET wide == df.ncols > MaintainerCol
        type_cell == IF wide THEN Iloc(df, i, VehicleTypeCol) ELSE NoRead
        num_cell == IF wide THEN Iloc(df, i, VehicleNumCol) ELSE NoRead
        maintainer_cell == IF wide THEN Iloc(df, i, MaintainerCol) ELSE NoRead
    IN [exc |-> FirstExc(<<type_cell.exc, num_cell.exc, maintainer_cell.exc>>),
        lines |-> IF wide /\ Truthy(type_cell.v) /\ Truthy(num_cell.v) /\ Truthy(maintainer_cell.v)
                  THEN << <<"(">> \o PyStr(type_cell.v) \o <<")">> \o VehicleLabel
                          \o PyStr(num_cell.v) \o <<" ">> \o MaintainerLabel
                          \o PyStr(maintainer_cell.v) >>
                  ELSE <<>>]

\* the constant note of line 246, kept as one symbol
FixedNote == <<"<fixed_note>">>

\* lines 149-152: the four columns, each an outcome of find_column_by_header
FindColumns(df) ==
    [duty |-> find_column_by_header(df, DutyKeywords),
     rescue |-> find_column_by_header(df, RescueKeywords),
     standby |-> find_column_by_header(df, StandbyKeywords),
     rest |-> find_column_by_header(df, RestKeywords)]

\* lines 157-187: the 24 passes of the slot loop
ReadSlots(df, cols) ==
    [k \in 1..(LastSlotRow - FirstSlotRow + 1) |-> ReadSlot(df, cols, FirstSlotRow + k - 1)] \o <<>>

\* lines 189-243: the fixed cells
ReadFixedCells(df) ==
    LET rotation_cell == Iloc(df, RotationRow, RotationCol)
        compensatory_cell == IF df.ncols > CompensatoryCol
                             THEN Iloc(df, RotationRow, CompensatoryCol) ELSE NoRead
        remarks_read == Iloc(df, RemarksRow, 0)
        dispatch_cell == Iloc(df, DispatchRow, DispatchCol)
        dispatch_val == IF IsNa(dispatch_cell.v) THEN Returned(<<>>)
                        ELSE FormatDispatch(PyStr(dispatch_cell.v))
        vehicles == [k \in 1..(LastVehicleRow - FirstVehicleRow + 1) |->
                        ReadVehicle(df, FirstVehicleRow + k - 1)]
    IN [exc |-> FirstExc(<<rotation_cell.exc, compensatory_cell.exc, remarks_read.exc,
                           dispatch_cell.exc, dispatch_val.exc>>
                         \o [k \in 1..Len(vehicles) |-> vehicles[k].exc]),
        rotation_off |-> IF IsNa(rotation_cell.v) THEN <<>> ELSE PyStr(rotation_cell.v),
        compensatory_off |-> IF IsNa(compensatory_cell.v) THEN <<>>
                             ELSE PyStr(compensatory_cell.v),
        remarks |-> NormalizeRemarks(remarks_read.v),
        dispatch |-> dispatch_val.val,
        vehicle_maintenance |->
            Join(<<"\n">>, vehicles[1].lines \o vehicles[2].lines \o vehicles[3].lines)]

\* the record of lines 248-256, or the first exception on the way to it
RecordOf(found, slots, fixed) ==
    [exc |-> FirstExc(<<found.duty.exc, found.rescue.exc, found.standby.exc, found.rest.exc>>
                      \o [k \in 1..Len(slots) |-> slots[k].exc]
                      \o <<fixed.exc>>),
     data |-> [time_slots |-> [k \in 1..Len(slots) |-> slots[k].slot],
               rotation_off |-> fixed.rotation_off,
               compensatory_off |-> fixed.compensatory_off,
               remarks |-> fixed.remarks,
               dispatch |-> fixed.dispatch,
               vehicle_maintenance |-> fixed.vehicle_maintenance,
               fixed_note |-> FixedNote]]

\* df = pd.read_excel(...) is at hand: lines 149-256
ExtractFromFrame(df) ==
    Only({ Only({ RecordOf(found, slots, fixed) :
                  slots \in {ReadSlots(df, [duty |-> found.duty.col, rescue |-> found.rescue.col,
                                            standby |-> found.standby.col, rest |-> found.rest.col])},
                  fixed \in {ReadFixedCells(df)} }) :
           found \in {FindColumns(df)} })

\* extract_duty_data(duty_file, date_sheet): pd.read_excel raises
\* ValueError when the workbook has no worksheet of that name
extract_duty_data(file, sheet) ==
    IF sheet \notin file.sheet_names THEN [exc |-> "ValueError", data |-> None]
    ELSE ExtractFromFrame(file.df)

(***************************************************************************)
(* fill_distribution_table.  Rows and columns are 1-indexed as in openpyxl.*)
(***************************************************************************)
DutyOutRow == 4           \* ws.cell(row=4, ...)
RescueOutRow == 5
StandbyOutRow == 11
RestOutRow == 12
FirstOutCol == 5          \* col = i + 5
DispatchOutRow == 17      \* ws.cell(row=17, column=5, ...)
RemarksOutRow == 18       \* ws.cell(row=18, column=5, ...)
NoteOutCol == 5
VehiclePadding == 22      \* the spaces appended to the vehicle-maintenance block

WsRows == 19              \* rows of the worksheet the model keeps
WsCols == 29              \* columns of the worksheet the model keeps

\* value of cell (r, c) of the template's active sheet
TemplateCell(t, r, c) ==
    IF t.fill = "full" THEN Text(<<"o">>)
    ELSE IF t.fill = "striped" /\ (r + c) % 2 = 0 THEN Text(<<"o", "e">>)
    ELSE None

\* wb = load_workbook(template_file); ws = wb.active, as a sequence of rows
LoadActiveSheet(t) ==
    [r \in 1..WsRows |-> [c \in 1..WsCols |-> TemplateCell(t, r, c)] \o <<>>] \o <<>>

\* ws.cell(..., value=val) whatever val is: the cell's value afterwards
CellAfterWrite(old, val) == Text(val)

\* if val: ws.cell(..., value=val): the cell's value afterwards
CellAfterGuardedWrite(old, val) == IF val # <<>> THEN Text(val) ELSE old

\* for i, slot in enumerate(time_slots), from pass i on
RECURSIVE FillSlots(_, _, _)
FillSlots(sheet, time_slots, i) ==
    IF i >= Len(time_slots) THEN sheet
    ELSE LET slot == time_slots[i + 1]
             col == i + FirstOutCol
         IN FillSlots([sheet EXCEPT
                          ![DutyOutRow][col] = CellAfterGuardedWrite(@, slot.duty),
                          ![RescueOutRow][col] = CellAfterGuardedWrite(@, slot.rescue),
                          ![StandbyOutRow][col] = CellAfterGuardedWrite(@, slot.standby),
                          ![RestOutRow][col] = CellAfterGuardedWrite(@, slot.rest)],
                      time_slots, i + 1)

Spaces(n) == [i \in 1..n |-> " "]

\* remarks_parts in the wrong order: the note first
RemarksPartsNoteFirst(data) ==
    (IF data.fixed_note # <<>> THEN <<data.fixed_note>> ELSE <<>>)
    \o (IF data.remarks # <<>> THEN <<data.remarks>> ELSE <<>>)
    \o (IF data.vehicle_maintenance # <<>>
        THEN <<data.vehicle_maintenance \o Spaces(VehiclePadding)>> ELSE <<>>)

\* remarks_parts of lines 306-319
RemarksParts(data) ==
    (IF data.remarks # <<>> THEN <<data.remarks>> ELSE <<>>)
    \o (IF data.vehicle_maintenance # <<>>
        THEN <<data.vehicle_maintenance \o Spaces(VehiclePadding)>> ELSE <<>>)
    \o (IF data.fixed_note # <<>> THEN <<data.fixed_note>> ELSE <<>>)

\* remarks_text = "\n".join(remarks_parts)
RemarksText(data) == Join(<<"\n">>, RemarksParts(data))

\* whether the function calls ws.cell at all
CallsWsCell(data) ==
    \/ \E k \in 1..Len(data.time_slots) :
          \/ data.time_slots[k].duty # <<>>
          \/ data.time_slots[k].rescue # <<>>
          \/ data.time_slots[k].standby # <<>>
          \/ data.time_slots[k].rest # <<>>
    \/ data.dispatch # <<>>
    \/ RemarksText(data) # <<>>

\* fill_distribution_table: the worksheet as saved, or the exception:
\* load_workbook rejects an unreadable file, and ws.cell on a workbook
\* without an active sheet (ws is None) raises AttributeError
fill_distribution_table(t, data) ==
    IF ~t.readable THEN [exc |-> "InvalidFileException", ws |-> None]
    ELSE IF ~t.active /\ CallsWsCell(data) THEN [exc |-> "AttributeError", ws |-> None]
    ELSE IF ~t.active THEN [exc |-> "none", ws |-> None]
    ELSE LET slots_done == FillSlots(LoadActiveSheet(t), data.time_slots, 0)
             dispatch_done == [slots_done EXCEPT ![DispatchOutRow][NoteOutCol] =
                                                    CellAfterGuardedWrite(@, data.dispatch)]
         IN [exc |-> "none",
             ws |-> [dispatch_done EXCEPT ![RemarksOutRow][NoteOutCol] =
                                              CellAfterGuardedWrite(@, RemarksText(data))]]

\* f"[2026{month}{day}] <station> <distribution table>.xlsx"
Filename(sheet) ==
    <<"[", "2", "0", "2", "6">> \o SubSeq(sheet, 1, 2) \o SubSeq(sheet, 3, Len(sheet))
    \o <<"]", " ", "U+5C4F", "U+4E8C", "U+5206", "U+968A", "U+52E4", "U+52D9", "U+5206",
         "U+914D", "U+8868", ".", "x", "l", "s", "x">>

(***************************************************************************)
(* Spec: one click on the generate button (app.py 133-159): process_files  *)
(* on a duty workbook, a template and a date key, then the download        *)
(* button or the error message.                                            *)
(***************************************************************************)
\* extents (rows, columns) of a duty sheet that ends before an offset the
\* code reads, and of one that holds them all
ShortExtents ==
    { <<0, 0>>, <<2, 6>>, <<3, 0>>, <<20, 6>>, <<28, 6>>, <<29, 3>>, <<29, 6>>, <<30, 10>>,
      <<31, 10>>, <<36, 23>>, <<42, 23>> }

FullExtents == { <<43, 6>>, <<43, 22>>, <<43, 23>>, <<44, 24>> }

Other == Text(<<"x">>)
HeaderDuty == Text(<<"U+503C", "U+73ED">>)
HeaderRescue1 == Text(<<"U+7B2C", "U+4E00", "U+6551", "U+8B77">>)
HeaderRescue2 == Text(<<"U+7B2C", "U+4E8C", "U+6551", "U+8B77">>)
HeaderStandby == Text(<<"U+5099", "U+52E4">>)
HeaderRest == Text(<<"U+4F11", "U+606F">>)

\* header rows, column 0 first
HeaderRows ==
    { <<Other, HeaderDuty, HeaderRescue1, HeaderRescue2, HeaderStandby, HeaderRest>>,
      <<Other, Text(<<"U+503C", "\n", "U+73ED">>), Text(<<"U+6551", " ", "U+8B77">>), NaN,
        Text(<<" ", "U+5099", "U+52E4", "x">>)>>,
      <<Other, Other, Num(8, 0)>>,
      <<HeaderDuty, HeaderStandby, HeaderRest, Text(<<"U+6551", "U+8B77">>)>>,
      <<Other, HeaderRescue2, HeaderRescue1, HeaderDuty>>,
      <<>> }

\* the slot cells of the even rows and of the odd rows
SlotValues ==
    { <<NaN, NaN>>, <<Num(8, 0), Num(20, 0)>>, <<Num(100, 0), NaN>>,
      <<Text(<<"8">>), Text(<<"8">>)>>,
      <<Text(<<"1", "0", ".", "1", "4", ".", "1">>), Num(20, 5)>> }

\* the fixed cells: remarks, dispatch, vehicle maintenance, rotation
FixedCells ==
    { [remarks |-> NaN, dispatch |-> NaN, vehicle |-> NaN, rotation |-> NaN],
      [remarks |-> Text(<<Bei, Zhu, FullColon, "a", FullPeriod, RefMark, "a", FullPeriod>>),
       dispatch |-> Text(<<"1", "6", "U+8ECA", "(", "1", "0", ".", "1", ")">>),
       vehicle |-> Text(<<"a">>), rotation |-> Text(<<"a">>)],
      [remarks |-> Text(<<"a">>), dispatch |-> NaN, vehicle |-> Num(0, 0), rotation |-> Num(8, 0)],
      [remarks |-> NaN, dispatch |-> Text(<<"(", "1">>), vehicle |-> Num(8, 0), rotation |-> NaN] }

Frames(extents) ==
    { [nrows |-> e[1], ncols |-> e[2], header |-> h, slot |-> v[1], slot_odd |-> v[2],
       remarks |-> f.remarks, dispatch |-> f.dispatch, vehicle |-> f.vehicle,
       rotation |-> f.rotation] :
        e \in extents, h \in HeaderRows, v \in SlotValues, f \in FixedCells }

Templates ==
    { [readable |-> FALSE, active |-> FALSE, fill |-> "blank"],
      [readable |-> TRUE, active |-> FALSE, fill |-> "blank"],
      [readable |-> TRUE, active |-> TRUE, fill |-> "blank"],
      [readable |-> TRUE, active |-> TRUE, fill |-> "full"],
      [readable |-> TRUE, active |-> TRUE, fill |-> "striped"] }

Striped == [readable |-> TRUE, active |-> TRUE, fill |-> "striped"]

Jan01 == <<"0", "1", "0", "1">>
Jan02 == <<"0", "1", "0", "2">>

DutyFiles(extents) == {[sheet_names |-> {Jan01}, df |-> df] : df \in Frames(extents)}

\* a full sheet with every template, a short sheet, or a date key the
\* workbook has no sheet for
Init ==
    /\ pc = "start"
    /\ \/ /\ duty_file \in DutyFiles(FullExtents)
          /\ template_file \in Templates
          /\ date_sheet = Jan01
       \/ /\ duty_file \in DutyFiles(ShortExtents)
          /\ template_file = Striped
          /\ date_sheet = Jan01
       \/ /\ duty_file \in DutyFiles({<<44, 24>>})
          /\ template_file = Striped
          /\ date_sheet = Jan02
    /\ duty_data = None /\ ws = None /\ result = None /\ raised = "none" /\ ui = <<>>
    /\ DatesIdle /\ ParseIdle /\ RemarksIdle /\ AppIdle

\* process_files, line 347
ExtractDutyData ==
    /\ pc = "start"
    /\ LET r == extract_duty_data(duty_file, date_sheet)
       IN IF r.exc = "none"
          THEN duty_data' = r.data /\ raised' = raised /\ pc' = "extracted"
          ELSE duty_data' = duty_data /\ raised' = r.exc /\ pc' = "except"
    /\ UNCHANGED <<duty_file, template_file, date_sheet, ws, result, ui,
                   datesVars, parseVars, remarksVars, appVars>>

\* line 350 with the failure of the fill swallowed: the template is saved
\* as loaded and handed on
FillDistributionTableSwallowing ==
    /\ pc = "extracted"
    /\ LET r == fill_distribution_table(template_file, duty_data)
       IN ws' = (IF r.exc = "none" THEN r.ws ELSE LoadActiveSheet(template_file))
    /\ raised' = raised
    /\ pc' = "filled"
    /\ UNCHANGED <<duty_file, template_file, date_sheet, duty_data, result, ui,
                   datesVars, parseVars, remarksVars, appVars>>

\* process_files, line 350
FillDistributionTable ==
    /\ pc = "extracted"
    /\ LET r == fill_distribution_table(template_file, duty_data)
       IN IF r.exc = "none"
          THEN ws' = r.ws /\ raised' = raised /\ pc' = "filled"
          ELSE ws' = ws /\ raised' = r.exc /\ pc' = "except"
    /\ UNCHANGED <<duty_file, template_file, date_sheet, duty_data, result, ui,
                   datesVars, parseVars, remarksVars, appVars>>

\* process_files, lines 354-358
ProcessFilesReturn ==
    /\ pc = "filled"
    /\ result' = [file |-> ws, filename |-> Filename(date_sheet)]
    /\ pc' = "returned"
    /\ UNCHANGED <<duty_file, template_file, date_sheet, duty_data, ws, raised, ui,
                   datesVars, parseVars, remarksVars, appVars>>

\* app.py 145-155: st.success, st.download_button
ShowDownload ==
    /\ pc = "returned"
    /\ ui' = ui \o << [kind |-> "success", data |-> None, file_name |-> <<>>],
                      [kind |-> "download_button", data |-> result.file,
                       file_name |-> result.filename] >>
    /\ pc' = "done"
    /\ UNCHANGED <<duty_file, template_file, date_sheet, duty_data, ws, result, raised,
                   datesVars, parseVars, remarksVars, appVars>>

\* app.py 157-159: st.error, st.exception
ShowError ==
    /\ pc = "except"
    /\ ui' = ui \o << [kind |-> "error", data |-> None, file_name |-> <<>>],
                      [kind |-> "exception", data |-> None, file_name |-> <<>>] >>
    /\ pc' = "done"
    /\ UNCHANGED <<duty_file, template_file, date_sheet, duty_data, ws, result, raised,
                   datesVars, parseVars, remarksVars, appVars>>

Next ==
    \/ ExtractDutyData
    \/ FillDistributionTable
    \/ ProcessFilesReturn
    \/ ShowDownload
    \/ ShowError

Spec == Init /\ [][Next]_vars

(***************************************************************************)
(* Claims about extract_duty_data, fill_distribution_table, process_files. *)
(***************************************************************************)
Extracted == pc # "start" /\ date_sheet \in duty_file.sheet_names

\* C1: on a sheet with fewer rows or columns than the offsets read, every
\* read beyond the extent counts as empty: a DutyRecord is returned, its
\* fields beyond the extent empty, and no out-of-bounds fault is raised.
C1_ShortSheetReadsAsEmpty ==
    Extracted =>
        /\ raised # "IndexError"
        /\ duty_data # None
        /\ duty_file.df.nrows <= RemarksRow => duty_data.remarks = <<>>
        /\ duty_file.df.nrows <= DispatchRow => duty_data.dispatch = <<>>
        /\ duty_file.df.nrows <= FirstVehicleRow => duty_data.vehicle_maintenance = <<>>

\* every maximal run of digits in s is exactly two digits long
DigitRunsAreTwo(s) ==
    \A i \in 1..Len(s) :
        (IsDigit(s[i]) /\ (i = 1 \/ ~IsDigit(s[i - 1]))) =>
            /\ i + 1 <= Len(s) /\ IsDigit(s[i + 1])
            /\ i + 2 > Len(s) \/ ~IsDigit(s[i + 2])

\* C3: in every DutyRecord returned, every numeric personnel ID of the
\* duty, rescue, standby and rest fields of every slot is exactly two
\* digits, whether the source cell held a number or numeric text.
C3_IdsAreTwoDigits ==
    duty_data # None =>
        \A k \in 1..Len(duty_data.time_slots) :
            /\ DigitRunsAreTwo(duty_data.time_slots[k].duty)
            /\ DigitRunsAreTwo(duty_data.time_slots[k].rescue)
            /\ DigitRunsAreTwo(duty_data.time_slots[k].standby)
            /\ DigitRunsAreTwo(duty_data.time_slots[k].rest)

\* the header cell of column c matches one of the keywords
HeaderMatches(df, c, keywords) ==
    /\ c < Len(df.header)
    /\ df.header[c + 1].kind # "nan"
    /\ \E k \in 1..Len(keywords) :
          Contains(RemoveNewlinesAndSpaces(PyStr(df.header[c + 1])), keywords[k])

\* the column find_column_by_header is to return: the first match, else none
FirstMatch(df, keywords) ==
    IF \E c \in 0..(df.ncols - 1) : HeaderMatches(df, c, keywords)
    THEN CHOOSE c \in 0..(df.ncols - 1) :
            /\ HeaderMatches(df, c, keywords)
            /\ \A b \in 0..(c - 1) : ~HeaderMatches(df, b, keywords)
    ELSE NoColumn

FieldOf(slot, field) ==
    CASE field = "duty" -> slot.duty
      [] field = "rescue" -> slot.rescue
      [] field = "standby" -> slot.standby
      [] field = "rest" -> slot.rest

FieldKeywords ==
    [duty |-> DutyKeywords, rescue |-> RescueKeywords,
     standby |-> StandbyKeywords, rest |-> RestKeywords]

\* C6: find_column_by_header returns the first column whose stripped header
\* contains a keyword, and the not-found value, never an exception, when
\* none does; a field whose column is not found is empty in all 24 slots
\* of the record, which is still produced.
C6_NotFoundDegradesToEmpty ==
    Extracted =>
        \A field \in DOMAIN FieldKeywords :
            LET found == find_column_by_header(duty_file.df, FieldKeywords[field])
            IN /\ found.exc = "none"
               /\ found.col = FirstMatch(duty_file.df, FieldKeywords[field])
               /\ found.col = NoColumn =>
                     /\ duty_data # None
                     /\ Len(duty_data.time_slots) = 24
                     /\ \A k \in 1..Len(duty_data.time_slots) :
                           FieldOf(duty_data.time_slots[k], field) = <<>>

\* the slot value a target cell of the slot rows takes, by its row
SlotValueFor(slot, r) ==
    CASE r = 4 -> slot.duty
      [] r = 5 -> slot.rescue
      [] r = 11 -> slot.standby
      [] r = 12 -> slot.rest

\* C2: after fill_distribution_table the sheet equals the template except
\* that, for slot i of 0..23, the cells at column 5+i of rows 4, 5, 11, 12
\* hold the slot's duty, rescue, standby, rest value when it is non-empty,
\* cell (17,5) holds the dispatch text when it is non-empty, and cell
\* (18,5) holds the combined remarks.
C2_OnlyTargetCellsChange ==
    ws # None =>
        \A r \in 1..WsRows, c \in 1..WsCols :
            LET old == TemplateCell(template_file, r, c)
            IN IF r \in {4, 5, 11, 12} /\ c - 5 \in 0..23
               THEN LET val == SlotValueFor(duty_data.time_slots[c - 4], r)
                    IN ws[r][c] = IF val # <<>> THEN Text(val) ELSE old
               ELSE IF r = 17 /\ c = 5
               THEN ws[r][c] = IF duty_data.dispatch # <<>> THEN Text(duty_data.dispatch) ELSE old
               ELSE IF r = 18 /\ c = 5 THEN TRUE
               ELSE ws[r][c] = old

\* a sheet was filled whose slot 0 has a duty value and whose slot 1 has
\* none, over a template that holds text in the cell of slot 1
C2_Witness ==
    /\ ws # None
    /\ duty_data.time_slots[1].duty # <<>>
    /\ duty_data.time_slots[2].duty = <<>>
    /\ TemplateCell(template_file, 4, 6) # None
    /\ ws[4][6] = TemplateCell(template_file, 4, 6)
    /\ ws[4][5] = Text(duty_data.time_slots[1].duty)

\* C8: cell (18,5) is written for every record and holds, each on its own
\* line and in this order, the remarks if any, the vehicle-maintenance
\* block if any followed by its 22 spaces, and the boilerplate note last.
C8_CombinedRemarks ==
    (pc \in {"filled", "returned", "done"} /\ raised = "none") =>
        /\ ws # None
        /\ ws[18][5] =
              Text((IF duty_data.remarks # <<>> THEN duty_data.remarks \o <<"\n">> ELSE <<>>)
                   \o (IF duty_data.vehicle_maintenance # <<>>
                       THEN duty_data.vehicle_maintenance \o [i \in 1..22 |-> " "] \o <<"\n">>
                       ELSE <<>>)
                   \o FixedNote)

\* a sheet was filled from a record with remarks and a vehicle block
C8_Witness ==
    /\ pc = "filled" /\ ws # None
    /\ duty_data.remarks # <<>>
    /\ duty_data.vehicle_maintenance # <<>>

DutyContents == {"dated", "undated", "unreadable"}

Upload(content) == [pos |-> 0, fresh |-> TRUE, content |-> content]

\* a workbook is opened from the buffer: the library leaves the position
\* where it stopped reading
ReadFrom(buf, p) == [buf EXCEPT !.pos = p, !.fresh = FALSE]

\* buf.seek(0)
Seek0(buf) == [buf EXCEPT !.pos = 0, !.fresh = TRUE]

InitApp ==
    /\ pc = "idle"
    /\ duty_buf = None /\ template_buf = None
    /\ available_dates = <<>> /\ selected_date = <<>> /\ clicked = FALSE
    /\ DatesIdle /\ ParseIdle /\ RemarksIdle /\ ProcessIdle

\* st.file_uploader(key="duty"): the user uploads a duty workbook
UploadDuty ==
    /\ pc = "idle"
    /\ \E content \in DutyContents : duty_buf' = Upload(content)
    /\ clicked' = FALSE
    /\ pc' = "dates"
    /\ UNCHANGED <<template_buf, available_dates, selected_date,
                   datesVars, parseVars, remarksVars, processVars>>

\* st.file_uploader(key="template"): the user uploads a template
UploadTemplate ==
    /\ pc = "idle"
    /\ template_buf' = Upload("template")
    /\ clicked' = FALSE
    /\ pc' = "dates"
    /\ UNCHANGED <<duty_buf, available_dates, selected_date,
                   datesVars, parseVars, remarksVars, processVars>>

\* the generate button of the previous run is clicked
ClickGenerate ==
    /\ pc = "idle"
    /\ duty_buf # None /\ template_buf # None /\ selected_date # <<>>
    /\ clicked' = TRUE
    /\ pc' = "dates"
    /\ UNCHANGED <<duty_buf, template_buf, available_dates, selected_date,
                   datesVars, parseVars, remarksVars, processVars>>

\* any other widget (checkbox, selectbox, download button) reruns the script
Rerun ==
    /\ pc = "idle"
    /\ clicked' = FALSE
    /\ pc' = "dates"
    /\ UNCHANGED <<duty_buf, template_buf, available_dates, selected_date,
                   datesVars, parseVars, remarksVars, processVars>>

\* app.py 78-86: get_available_dates(duty_file), then duty_file.seek(0)
\* unless the call raised
ScriptGetDates ==
    /\ pc = "dates"
    /\ IF duty_buf = None
       THEN available_dates' = <<>> /\ duty_buf' = duty_buf
       ELSE IF duty_buf.content = "unreadable"
            THEN /\ available_dates' = <<>>
                 /\ \E p \in 0..MaxPos : duty_buf' = ReadFrom(duty_buf, p)
       ELSE /\ available_dates' = get_available_dates(
                                      IF duty_buf.content = "dated"
                                      THEN <<Jan02, <<"U+7BC4", "U+672C">>, Jan01>>
                                      ELSE << <<"U+7BC4", "U+672C">> >>)
            /\ duty_buf' = Seek0(duty_buf)
    /\ pc' = "select"
    /\ UNCHANGED <<template_buf, selected_date, clicked,
                   datesVars, parseVars, remarksVars, processVars>>

\* app.py 89-126: the date detected from the template's name or picked
ScriptSelectDate ==
    /\ pc = "select"
    /\ IF duty_buf # None /\ template_buf # None /\ available_dates # <<>>
       THEN \E k \in 1..Len(available_dates) : selected_date' = available_dates[k]
       ELSE selected_date' = <<>>
    /\ pc' = "button"
    /\ UNCHANGED <<duty_buf, template_buf, available_dates, clicked,
                   datesVars, parseVars, remarksVars, processVars>>

\* app.py 133-139: the button; when clicked, both buffers are reset
ScriptButton ==
    /\ pc = "button"
    /\ IF duty_buf # None /\ template_buf # None /\ selected_date # <<>> /\ clicked
       THEN /\ duty_buf' = Seek0(duty_buf)
            /\ template_buf' = Seek0(template_buf)
            /\ pc' = "extract"
       ELSE /\ UNCHANGED <<duty_buf, template_buf>>
            /\ pc' = "idle"
    /\ UNCHANGED <<available_dates, selected_date, clicked,
                   datesVars, parseVars, remarksVars, processVars>>

\* process_files, line 347: extract_duty_data opens the duty workbook and
\* returns a record or raises
ScriptExtract ==
    /\ pc = "extract"
    /\ \E p \in 0..MaxPos : duty_buf' = ReadFrom(duty_buf, p)
    /\ \E ok \in BOOLEAN : pc' = IF ok THEN "fill" ELSE "idle"
    /\ UNCHANGED <<template_buf, available_dates, selected_date, clicked,
                   datesVars, parseVars, remarksVars, processVars>>

\* process_files, line 350: fill_distribution_table opens the template;
\* the run ends with the download button or the error
ScriptFill ==
    /\ pc = "fill"
    /\ \E p \in 0..MaxPos : template_buf' = ReadFrom(template_buf, p)
    /\ pc' = "idle"
    /\ UNCHANGED <<duty_buf, available_dates, selected_date, clicked,
                   datesVars, parseVars, remarksVars, processVars>>

NextApp ==
    \/ UploadDuty
    \/ UploadTemplate
    \/ ClickGenerate
    \/ Rerun
    \/ ScriptGetDates
    \/ ScriptSelectDate
    \/ ScriptButton
    \/ ScriptExtract
    \/ ScriptFill

SpecApp == InitApp /\ [][NextApp]_vars

\* C10: whenever a workbook (an upload that can be read as one) is about to
\* be opened from an uploaded buffer (get_available_dates, extract_duty_data,
\* fill_distribution_table), the buffer has been reset to the start since its
\* previous read.
C10_ReadsFollowReset ==
    /\ (pc = "dates" /\ duty_buf # None /\ duty_buf.content # "unreadable") =>
          (duty_buf.fresh /\ duty_buf.pos = 0)
    /\ pc = "extract" => (duty_buf.fresh /\ duty_buf.pos = 0)
    /\ pc = "fill" => (template_buf.fresh /\ template_buf.pos = 0)

====
